---- MODULE Spec2Model ----
(***************************************************************************)
(* A model of data_set.py: the two audio data set builders               *)
(* (DCASE2013RemixedDataSet, ICASSP2018JointSeparationClassificationDataSet),*)
(* their cache archive, the ordered thread-pool map that decodes the audio *)
(* files, split, the normalisation statistics and the STFT framing.        *)
(*                                                                         *)
(* Strings that go through an encoding (class names, file names) are       *)
(* sequences of code points; the bytes of an archive are sequences of      *)
(* numbers 0..255.  Paths handled by split are sequences of one-character  *)
(* strings.                                                                *)
(***************************************************************************)
EXTENDS Integers, Sequences, FiniteSets, TLC

VARIABLES
    config,       \* the configuration dict of the instance under construction
    archive,      \* the cache folders on disk: folder -> state of <basename>.h5
    files_df,     \* the label table read by pd.read_csv (DCASE), or the packed archive (ICASSP)
    futures,      \* the futures created by executor.map, in submission order
    completed,    \* indices of the futures in the order the workers finished them
    pc,           \* position of the constructor
    self,         \* the instance's fields
    builtFrom,    \* which path filled the fields: "none", "file", "audio", "packed"
    outcome,      \* "running", "returned", or the name of the exception raised
    saveReached,  \* save_to_file has been entered
    failureSeen,  \* the rebuild path has met a bad label table or a failed decode
    reloaded,     \* result of build_from_file called after save_to_file
    splitState,   \* the last call of split: arguments, constructor calls made, result
    device,       \* where features and labels reside
    ret,          \* the value returned by the last method call on a built data set
    nCalls,       \* number of shift_and_scale calls made so far
    stft          \* the last call of separated_stft / istft: configuration and framing

vars == <<config, archive, files_df, futures, completed, pc, self, builtFrom, outcome,
          saveReached, failureSeen, reloaded, splitState, device, ret, nCalls, stft>>

consVars == <<config, archive, files_df, futures, completed, pc, self, builtFrom, outcome,
              saveReached, failureSeen, reloaded>>
splitVars == <<splitState>>
opsVars == <<device, ret, nCalls>>
stftVars == <<stft>>

(***************************************************************************)
(* Bounds                                                                  *)
(***************************************************************************)
MaxRows == 2        \* rows of the label table / entries of the packed archive
MaxWorkers == 2     \* largest thread_max_worker tried

(***************************************************************************)
(* Generic helpers                                                         *)
(***************************************************************************)
RECURSIVE SeqsUpTo(_, _)
SeqsUpTo(S, n) ==
    IF n = 0 THEN {<<>>}
    ELSE LET shorter == SeqsUpTo(S, n - 1)
         IN shorter \cup {Append(s, x) : s \in {t \in shorter : Len(t) = n - 1}, x \in S}

Abs(x) == IF x < 0 THEN -x ELSE x

Arr(items) == [isNone |-> FALSE, items |-> items]
NoneArr == [isNone |-> TRUE, items |-> <<>>]

(***************************************************************************)
(* Names.  Code points: 'a' 97, 'b' 98, 'g' 103, e-acute 233.              *)
(***************************************************************************)
FileA == <<97>>
FileB == <<98>>
FileNames == {FileA, FileB}
ClassAscii == <<103>>
ClassAccent == <<233>>

\* the decoded mono signal of each audio file (one sample stands for the signal)
AudioContent(file) == IF file = FileA THEN 3 ELSE -5
\* the label values of the row of each file
LabelOf(file) == IF file = FileA THEN <<1>> ELSE <<0>>

(***************************************************************************)
(* AudioDataSet                                                            *)
(***************************************************************************)
\* separated_stft: magnitude = |stft|, phase = stft / magnitude
separated_stft(audio) == [magnitude |-> Abs(audio), phase |-> audio \div Abs(audio)]

\* stft_magnitude_to_features: the (log-)mel projection of a magnitude
stft_magnitude_to_features(magnitude) ==
    [feature_type |-> config.feature_type, mel_of |-> magnitude]

\* load_audio: librosa.core.load on a file that decodes, or the exception it raises
load_audio(file, disk) ==
    IF disk = "ok" THEN [exc |-> "none", audio |-> AudioContent(file)]
    ELSE IF disk = "missing" THEN [exc |-> "FileNotFoundError", audio |-> 0]
    ELSE [exc |-> "NoBackendError", audio |-> 0]

(***************************************************************************)
(* The cache archive <basename>.h5 and the string encodings around it      *)
(***************************************************************************)
Folders == {"A", "B"}
DatasetNames == {"magnitudes", "phases", "features", "labels", "classes", "filenames"}

NoData == [k \in DatasetNames |-> NoneArr]
AbsentFile == [kind |-> "absent", data |-> NoData]
GarbageFile == [kind |-> "not_hdf5", data |-> NoData]

Max(S) == CHOOSE x \in S : \A y \in S : y <= x

\* str.encode('ascii'), which numpy applies to every item of np.array(..., dtype='S')
IsAscii(str) == \A i \in 1..Len(str) : str[i] < 128

\* a fixed-width 'S' array pads every item with NUL bytes to the longest item
PadTo(bytes, width) == bytes \o [i \in 1..(width - Len(bytes)) |-> 0]

RECURSIVE StripNul(_)
\* reading an item of a fixed-width 'S' dataset drops its trailing NUL bytes
StripNul(bytes) ==
    IF bytes # <<>> /\ bytes[Len(bytes)] = 0 THEN StripNul(SubSeq(bytes, 1, Len(bytes) - 1))
    ELSE bytes

\* np.array(strings, dtype='S'): the stored items, or the encoding error
EncodeS(strings) ==
    IF \E i \in 1..Len(strings) : ~IsAscii(strings[i])
    THEN [exc |-> "UnicodeEncodeError", items |-> <<>>]
    ELSE LET width == Max({1} \cup {Len(strings[i]) : i \in 1..Len(strings)})
         IN [exc |-> "none", items |-> [i \in 1..Len(strings) |-> PadTo(strings[i], width)]]

RECURSIVE DecodeUtf8(_)
\* bytes.decode('utf-8') for one- and two-byte sequences; <<-1>> marks a decoding error
DecodeUtf8(bytes) ==
    IF bytes = <<>> THEN <<>>
    ELSE IF bytes[1] < 128 THEN
        LET rest == DecodeUtf8(Tail(bytes))
        IN IF rest = <<-1>> THEN rest ELSE <<bytes[1]>> \o rest
    ELSE IF bytes[1] >= 194 /\ bytes[1] < 224 /\ Len(bytes) >= 2
            /\ bytes[2] >= 128 /\ bytes[2] < 192 THEN
        LET rest == DecodeUtf8(Tail(Tail(bytes)))
        IN IF rest = <<-1>> THEN rest
           ELSE <<(bytes[1] - 192) * 64 + (bytes[2] - 128)>> \o rest
    ELSE <<-1>>

DecodeAll(items) == [i \in 1..Len(items) |-> DecodeUtf8(StripNul(items[i]))]

EmptySelf == [magnitudes |-> Arr(<<>>), phases |-> Arr(<<>>), features |-> <<>>,
              labels |-> <<>>, classes |-> <<>>, filenames |-> <<>>]

\* build_from_file on the file at the load path: the six fields, or the exception
build_from_file(file) ==
    IF file.kind # "hdf5" THEN [exc |-> "ValueError", data |-> EmptySelf]
    ELSE IF file.data["features"].isNone \/ file.data["labels"].isNone
            \/ file.data["classes"].isNone \/ file.data["filenames"].isNone
    THEN [exc |-> "TypeError", data |-> EmptySelf]
    ELSE IF \E k \in {"classes", "filenames"} :
               \E i \in 1..Len(file.data[k].items) :
                   DecodeUtf8(StripNul(file.data[k].items[i])) = <<-1>>
    THEN [exc |-> "UnicodeDecodeError", data |-> EmptySelf]
    ELSE [exc |-> "none",
          data |-> [magnitudes |-> file.data["magnitudes"],
                    phases |-> file.data["phases"],
                    features |-> file.data["features"].items,
                    labels |-> file.data["labels"].items,
                    classes |-> DecodeAll(file.data["classes"].items),
                    filenames |-> DecodeAll(file.data["filenames"].items)]]

\* the datasets save_to_file creates, in order, until one create_dataset raises
save_to_file(d) ==
    LET created == [kind |-> "hdf5", data |-> NoData]
        withMag == [created EXCEPT !.data["magnitudes"] = d.magnitudes]
        withPhases == [withMag EXCEPT !.data["phases"] = d.phases]
        withFeatures == [withPhases EXCEPT !.data["features"] = Arr(d.features)]
        withLabels == [withFeatures EXCEPT !.data["labels"] = Arr(d.labels)]
        classes == EncodeS(d.classes)
        withClasses == [withLabels EXCEPT !.data["classes"] = Arr(classes.items)]
        filenames == EncodeS(d.filenames)
        withFilenames == [withClasses EXCEPT !.data["filenames"] = Arr(filenames.items)]
    IN IF d.magnitudes.isNone THEN [exc |-> "TypeError", file |-> created]
       ELSE IF d.phases.isNone THEN [exc |-> "TypeError", file |-> withMag]
       ELSE IF classes.exc # "none" THEN [exc |-> classes.exc, file |-> withLabels]
       ELSE IF filenames.exc # "none" THEN [exc |-> filenames.exc, file |-> withClasses]
       ELSE [exc |-> "none", file |-> withFilenames]

\* a data set and the archive an earlier run saved from it
SampleDataSet ==
    [magnitudes |-> Arr(<<3>>), phases |-> Arr(<<1>>),
     features |-> <<[feature_type |-> "log-mel", mel_of |-> 3]>>,
     labels |-> <<<<1>>>>, classes |-> <<ClassAscii>>, filenames |-> <<FileA>>]
SampleFile == save_to_file(SampleDataSet).file
\* the same archive with its class name written as UTF-8 by another tool
Utf8File == [SampleFile EXCEPT !.data["classes"] = Arr(<<<<195, 169>>>>)]
ArchiveStates ==
    {AbsentFile, GarbageFile, SampleFile, Utf8File}
    \cup {[SampleFile EXCEPT !.data[k] = NoneArr] : k \in DatasetNames}

(***************************************************************************)
(* DCASE2013RemixedDataSet.__init__                                        *)
(***************************************************************************)
EmptyDf == [kind |-> "none", classes |-> <<>>, rows |-> <<>>]
NoReload == [state |-> "none", exc |-> "none", data |-> EmptySelf]
TableKinds == {"ok", "no_filename", "non_numeric"}

Row(file) == [filename |-> file, values |-> LabelOf(file)]

DcaseConfigs ==
    [cls : {"DCASE2013RemixedDataSet"},
     feature_type : {"log-mel", "mel"},
     data_set_load_folder_path : Folders,
     data_set_save_folder_path : {"", "A"},
     thread_max_worker : 1..MaxWorkers]

InitCommon ==
    /\ files_df = EmptyDf
    /\ futures = <<>>
    /\ completed = <<>>
    /\ self = EmptySelf
    /\ builtFrom = "none"
    /\ outcome = "running"
    /\ saveReached = FALSE
    /\ failureSeen = FALSE
    /\ reloaded = NoReload

InitIdleSplit == splitState = [cls |-> "none", which |-> "", config |-> <<>>,
                               constructed |-> <<>>, exc |-> "none", message |-> <<>>,
                               returned |-> <<>>]
InitIdleOps == device = [features |-> "cpu", labels |-> "cpu"] /\ ret = <<>> /\ nCalls = 0
InitIdleStft == stft = [op |-> "none", sampling_rate |-> 0, width_ms |-> 0, shift_ms |-> 0,
                        n |-> 0, exc |-> "none", starts |-> <<>>, length |-> 0]

Init ==
    /\ config \in DcaseConfigs
    /\ archive \in [Folders -> ArchiveStates]
    /\ archive["B"] = AbsentFile
    /\ pc = "load"
    /\ InitCommon
    /\ InitIdleSplit /\ InitIdleOps /\ InitIdleStft

Raise(exc) == outcome' = exc /\ pc' = "done"

\* lines 215-220: try build_from_file; a ValueError sends the constructor to the rebuild
InitLoad ==
    /\ pc = "load"
    /\ LET r == build_from_file(archive[config.data_set_load_folder_path])
       IN IF r.exc = "none"
          THEN /\ self' = r.data /\ builtFrom' = "file" /\ pc' = "save"
               /\ UNCHANGED outcome
          ELSE IF r.exc \in {"ValueError", "UnicodeDecodeError"}
          THEN pc' = "read_csv" /\ UNCHANGED <<self, builtFrom, outcome>>
          ELSE Raise(r.exc) /\ UNCHANGED <<self, builtFrom>>
    /\ UNCHANGED <<config, archive, files_df, futures, completed, saveReached, failureSeen,
                   reloaded, splitVars, opsVars, stftVars>>

\* line 221: pd.read_csv of weak_labels.csv
ReadCsv ==
    /\ pc = "read_csv"
    /\ \/ \E exc \in {"FileNotFoundError", "ParserError"} :
            /\ Raise(exc) /\ failureSeen' = TRUE /\ UNCHANGED files_df
       \/ \E kind \in TableKinds, files \in SeqsUpTo(FileNames, MaxRows),
             class \in {ClassAscii, ClassAccent} :
            /\ files_df' = [kind |-> kind, classes |-> <<class>>,
                            rows |-> [i \in 1..Len(files) |-> Row(files[i])]]
            /\ failureSeen' = (kind # "ok")
            /\ pc' = "submit"
            /\ UNCHANGED outcome
    /\ UNCHANGED <<config, archive, futures, completed, self, builtFrom, saveReached,
                   reloaded, splitVars, opsVars, stftVars>>

NoResult == [exc |-> "pending", audio |-> 0]

\* lines 229-231: executor.map submits one load_audio task per file name, in order
ExecutorMap ==
    /\ pc = "submit"
    /\ IF files_df.kind = "no_filename"
       THEN Raise("KeyError") /\ UNCHANGED futures
       ELSE /\ futures' = [i \in 1..Len(files_df.rows) |->
                              [file |-> files_df.rows[i].filename, state |-> "queued",
                               result |-> NoResult]]
            /\ pc' = "pool"
            /\ UNCHANGED outcome
    /\ UNCHANGED <<config, archive, files_df, completed, self, builtFrom, saveReached,
                   failureSeen, reloaded, splitVars, opsVars, stftVars>>

Running == {i \in 1..Len(futures) : futures[i].state = "running"}

\* an idle worker thread takes the oldest queued task
WorkerStart(i) ==
    /\ pc = "pool"
    /\ i \in 1..Len(futures)
    /\ futures[i].state = "queued"
    /\ \A j \in 1..(i - 1) : futures[j].state # "queued"
    /\ Cardinality(Running) < config.thread_max_worker
    /\ futures' = [futures EXCEPT ![i].state = "running"]
    /\ UNCHANGED <<config, archive, files_df, completed, pc, self, builtFrom, outcome,
                   saveReached, failureSeen, reloaded, splitVars, opsVars, stftVars>>

\* a worker thread finishes load_audio: the future holds the signal or the exception
WorkerFinish(i) ==
    /\ pc = "pool"
    /\ i \in 1..Len(futures)
    /\ futures[i].state = "running"
    /\ \E disk \in {"ok", "missing", "undecodable"} :
         LET r == load_audio(futures[i].file, disk)
         IN /\ futures' = [futures EXCEPT ![i].state = "done", ![i].result = r]
            /\ failureSeen' = (failureSeen \/ r.exc # "none")
    /\ completed' = Append(completed, i)
    /\ UNCHANGED <<config, archive, files_df, pc, self, builtFrom, outcome, saveReached,
                   reloaded, splitVars, opsVars, stftVars>>

\* a map that yields the results in the order the tasks completed
MapResultsByCompletion == [k \in 1..Len(completed) |-> futures[completed[k]].result]
\* lines 230-233: the iterator executor.map returns yields the futures' results in
\* submission order
MapResults == [i \in 1..Len(futures) |-> futures[i].result]

\* an iteration that drops the failed decodes and keeps the rest
IterateResultsSkippingFailures(results) ==
    LET good == SelectSeq(results, LAMBDA r : r.exc = "none")
    IN [exc |-> "none", audios |-> [i \in 1..Len(good) |-> good[i].audio]]
\* line 233: iterating the results re-raises the first exception met, in order
IterateResults(results) ==
    IF \E i \in 1..Len(results) : results[i].exc # "none"
    THEN LET first == CHOOSE i \in 1..Len(results) :
                         /\ results[i].exc # "none"
                         /\ \A j \in 1..(i - 1) : results[j].exc = "none"
         IN [exc |-> results[first].exc, audios |-> <<>>]
    ELSE [exc |-> "none", audios |-> [i \in 1..Len(results) |-> results[i].audio]]

\* lines 232-241 of build_from_audio_files, run once the with-block has joined the workers
build_from_audio_files(df, results) ==
    LET it == IterateResults(results)
        stfts == [i \in 1..Len(it.audios) |-> separated_stft(it.audios[i])]
        magnitudes == [i \in 1..Len(stfts) |-> stfts[i].magnitude]
    IN IF it.exc # "none" THEN [exc |-> it.exc, data |-> EmptySelf]
       ELSE IF stfts = <<>> THEN [exc |-> "ValueError", data |-> EmptySelf]
       ELSE IF df.kind = "non_numeric" THEN [exc |-> "ValueError", data |-> EmptySelf]
       ELSE [exc |-> "none",
             data |-> [magnitudes |-> Arr(magnitudes),
                       phases |-> Arr([i \in 1..Len(stfts) |-> stfts[i].phase]),
                       features |-> [i \in 1..Len(magnitudes) |->
                                        stft_magnitude_to_features(magnitudes[i])],
                       labels |-> [i \in 1..Len(df.rows) |-> df.rows[i].values],
                       classes |-> df.classes,
                       filenames |-> [i \in 1..Len(df.rows) |-> df.rows[i].filename]]]

AllDone == \A i \in 1..Len(futures) : futures[i].state = "done"

\* leaving the with-block waits for every task; the rest of build_from_audio_files follows
Assemble ==
    /\ pc = "pool"
    /\ config.cls = "DCASE2013RemixedDataSet"
    /\ AllDone
    /\ LET r == build_from_audio_files(files_df, MapResults)
       IN IF r.exc = "none"
          THEN /\ self' = r.data /\ builtFrom' = "audio" /\ pc' = "save"
               /\ UNCHANGED outcome
          ELSE Raise(r.exc) /\ UNCHANGED <<self, builtFrom>>
    /\ UNCHANGED <<config, archive, files_df, futures, completed, saveReached, failureSeen,
                   reloaded, splitVars, opsVars, stftVars>>

\* lines 225-226: save_to_file when a save folder is configured, then the constructor returns
InitSave ==
    /\ pc = "save"
    /\ IF config.data_set_save_folder_path # ""
       THEN LET w == save_to_file(self)
            IN /\ archive' = [archive EXCEPT ![config.data_set_save_folder_path] = w.file]
               /\ saveReached' = TRUE
               /\ outcome' = IF w.exc = "none" THEN "returned" ELSE w.exc
       ELSE /\ outcome' = "returned"
            /\ UNCHANGED <<archive, saveReached>>
    /\ pc' = "done"
    /\ UNCHANGED <<config, files_df, futures, completed, self, builtFrom, failureSeen,
                   reloaded, splitVars, opsVars, stftVars>>

\* build_from_file called on the instance after save_to_file, load folder = save folder
ReloadAfterSave ==
    /\ pc = "done"
    /\ saveReached
    /\ config.data_set_load_folder_path = config.data_set_save_folder_path
    /\ reloaded.state = "none"
    /\ LET r == build_from_file(archive[config.data_set_load_folder_path])
       IN reloaded' = [state |-> "done", exc |-> r.exc, data |-> r.data]
    /\ UNCHANGED <<config, archive, files_df, futures, completed, pc, self, builtFrom,
                   outcome, saveReached, failureSeen, splitVars, opsVars, stftVars>>

Next ==
    \/ InitLoad
    \/ ReadCsv
    \/ ExecutorMap
    \/ \E i \in 1..MaxRows : WorkerStart(i)
    \/ \E i \in 1..MaxRows : WorkerFinish(i)
    \/ Assemble
    \/ InitSave
    \/ ReloadAfterSave

Spec == Init /\ [][Next]_vars

(***************************************************************************)
(* ICASSP2018JointSeparationClassificationDataSet.__init__                 *)
(***************************************************************************)
\* b'.mix_0db.wav'
MixSuffix == <<46, 109, 105, 120, 95, 48, 100, 98, 46, 119, 97, 118>>
\* the entries a packed archive may list: '1.mix_0db.wav', '2.mix_0db.wav', '1.bg.wav'
PackedNames == {<<49>> \o MixSuffix, <<50>> \o MixSuffix, <<49, 46, 98, 103, 46, 119, 97, 118>>}
\* ['babycry', 'glassbreak', 'gunshot', 'background']
IcasspClasses == <<<<98, 97, 98, 121, 99, 114, 121>>,
                   <<103, 108, 97, 115, 115, 98, 114, 101, 97, 107>>,
                   <<103, 117, 110, 115, 104, 111, 116>>,
                   <<98, 97, 99, 107, 103, 114, 111, 117, 110, 100>>>>

EndsWith(bytes, suffix) ==
    /\ Len(bytes) >= Len(suffix)
    /\ SubSeq(bytes, Len(bytes) - Len(suffix) + 1, Len(bytes)) = suffix

\* one entry of the packed archive: its name in na_list, its row of x and its row of y
PackedRow(name) == [filename |-> name, x |-> name[1] - 48, values |-> <<name[1] - 49>>]

IcasspConfigs ==
    [cls : {"ICASSP2018JointSeparationClassificationDataSet"},
     feature_type : {"log-mel"},
     thread_max_worker : 1..MaxWorkers]

InitPrepacked ==
    /\ config \in IcasspConfigs
    /\ archive = [f \in Folders |-> AbsentFile]
    /\ pc = "open"
    /\ InitCommon
    /\ InitIdleSplit /\ InitIdleOps /\ InitIdleStft

\* lines 356-363: read na_list, x, y; submit load_audio for the names ending in the suffix
IcasspLoad ==
    /\ pc = "open"
    /\ \/ Raise("OSError") /\ UNCHANGED <<files_df, self, futures>>
       \/ \E names \in SeqsUpTo(PackedNames, MaxRows) :
            LET rows == [i \in 1..Len(names) |-> PackedRow(names[i])]
                mixes == SelectSeq(names, LAMBDA f : EndsWith(f, MixSuffix))
            IN /\ files_df' = [kind |-> "packed", classes |-> <<>>, rows |-> rows]
               /\ self' = [self EXCEPT
                             !.filenames = names,
                             !.features = [i \in 1..Len(rows) |-> rows[i].x],
                             !.labels = [i \in 1..Len(rows) |-> rows[i].values]]
               /\ futures' = [i \in 1..Len(mixes) |->
                                 [file |-> DecodeUtf8(mixes[i]), state |-> "queued",
                                  result |-> NoResult]]
               /\ pc' = "pool"
               /\ UNCHANGED outcome
    /\ UNCHANGED <<config, archive, completed, builtFrom, saveReached, failureSeen,
                   reloaded, splitVars, opsVars, stftVars>>

\* lines 364-366: the STFT of every decoded mixture, then the fixed class list
IcasspAssemble ==
    /\ pc = "pool"
    /\ config.cls = "ICASSP2018JointSeparationClassificationDataSet"
    /\ AllDone
    /\ LET it == IterateResults(MapResults)
           stfts == [i \in 1..Len(it.audios) |-> separated_stft(it.audios[i])]
       IN IF it.exc # "none" THEN Raise(it.exc) /\ UNCHANGED <<self, builtFrom>>
          ELSE IF stfts = <<>> THEN Raise("ValueError") /\ UNCHANGED <<self, builtFrom>>
          ELSE /\ self' = [self EXCEPT
                             !.magnitudes = Arr([i \in 1..Len(stfts) |-> stfts[i].magnitude]),
                             !.phases = Arr([i \in 1..Len(stfts) |-> stfts[i].phase]),
                             !.classes = IcasspClasses]
               /\ builtFrom' = "packed"
               /\ outcome' = "returned"
               /\ pc' = "done"
    /\ UNCHANGED <<config, archive, files_df, futures, completed, saveReached, failureSeen,
                   reloaded, splitVars, opsVars, stftVars>>

NextPrepacked ==
    \/ IcasspLoad
    \/ \E i \in 1..MaxRows : WorkerStart(i)
    \/ \E i \in 1..MaxRows : WorkerFinish(i)
    \/ IcasspAssemble

SpecPrepacked == InitPrepacked /\ [][NextPrepacked]_vars

(***************************************************************************)
(* Properties of the constructors                                          *)
(***************************************************************************)
Rows == files_df.rows
StftOfRow(i) == separated_stft(AudioContent(Rows[i].filename))

\* C1: a data set built from the audio files holds, at every index i, the file name and
\* the label values of row i of the label table and the magnitude, phase and features
\* computed from the audio of row i's file, whatever the order the decodes finished in.
C1_RowOrderKept ==
    builtFrom = "audio" =>
        /\ Len(self.filenames) = Len(Rows)
        /\ Len(self.labels) = Len(Rows)
        /\ Len(self.magnitudes.items) = Len(Rows)
        /\ Len(self.phases.items) = Len(Rows)
        /\ Len(self.features) = Len(Rows)
        /\ \A i \in 1..Len(Rows) :
              /\ self.filenames[i] = Rows[i].filename
              /\ self.labels[i] = Rows[i].values
              /\ self.magnitudes.items[i] = StftOfRow(i).magnitude
              /\ self.phases.items[i] = StftOfRow(i).phase
              /\ self.features[i].mel_of = StftOfRow(i).magnitude

\* a data set of two different files whose second decode finished first
C1_Witness ==
    /\ builtFrom = "audio"
    /\ Len(Rows) = 2
    /\ Rows[1].filename # Rows[2].filename
    /\ completed = <<2, 1>>

\* C2 as stated: every constructed data set has magnitudes, phases, features, labels and
\* filenames of one length.
C2_LengthsAgree ==
    outcome = "returned" =>
        /\ ~self.magnitudes.isNone /\ ~self.phases.isNone
        /\ Len(self.magnitudes.items) = Len(self.filenames)
        /\ Len(self.phases.items) = Len(self.filenames)
        /\ Len(self.features) = Len(self.filenames)
        /\ Len(self.labels) = Len(self.filenames)

LoadFails(file) == file.kind # "hdf5" \/ \E k \in DatasetNames : file.data[k].isNone
RebuildStarted == pc = "read_csv" \/ files_df.kind # "none" \/ failureSeen

\* C3 as stated: when the archive at the load path is absent, not an archive, or lacks
\* one of the six named datasets, the constructor goes on to rebuild from the label table.
C3_CacheFailureRecovered ==
    (pc # "load" /\ ~saveReached /\ LoadFails(archive[config.data_set_load_folder_path]))
        => RebuildStarted

\* C4 as stated: build_from_file after save_to_file, load folder = save folder, returns
\* the six fields of the data set that was saved.
C4_RoundTrip ==
    (reloaded.state = "done" /\ ~self.magnitudes.isNone /\ ~self.phases.isNone)
        => (reloaded.exc = "none" /\ reloaded.data = self)

\* C9: once the rebuild has met a bad label table or a failed decode, the constructor
\* never reaches save_to_file, fills no field and returns no instance; it ends raising.
C9_FailurePropagates ==
    failureSeen =>
        /\ pc # "save"
        /\ ~saveReached
        /\ builtFrom = "none"
        /\ outcome # "returned"
        /\ (pc = "done" => outcome # "running")

\* one decode failed and another succeeded, and the constructor has ended
C9_Witness ==
    /\ pc = "done"
    /\ failureSeen
    /\ \E i, j \in 1..Len(futures) :
          futures[i].result.exc = "none" /\ futures[j].result.exc = "FileNotFoundError"

(***************************************************************************)
(* split.  A path is a sequence of tokens: "/" or a name.                  *)
(***************************************************************************)
\* os.path.join(a, b) for a relative name b
PathJoin(a, b) ==
    IF a = <<>> \/ a[Len(a)] = "/" THEN a \o <<b>> ELSE a \o <<"/", b>>

DataFolders == {<<"Datadir">>, <<"Datadir", "/">>, <<"/", "Datadir", "/", "remixed">>, <<>>}
AudioFolders == {<<"mixed_audio">>, <<"..", "/", "mixed_audio", "/">>}
SplitIds == {"all", "train", "dev", "test", "val", "training", ""}
ValidIds == {"all", "train", "dev", "test"}

SplitConfigs == [data_folder : DataFolders, audio_folder : AudioFolders]

\* the three configurations with the development and validation folders swapped
DcaseSplitConfigsSwapped(cfg) ==
    [tr |-> [cfg EXCEPT !.data_folder = PathJoin(cfg.data_folder, "training")],
     dev |-> [cfg EXCEPT !.data_folder = PathJoin(cfg.data_folder, "validation")],
     test |-> [cfg EXCEPT !.data_folder = PathJoin(cfg.data_folder, "development")]]
\* lines 188-191: the three configurations of the remixed builder
DcaseSplitConfigs(cfg) ==
    [tr |-> [cfg EXCEPT !.data_folder = PathJoin(cfg.data_folder, "training")],
     dev |-> [cfg EXCEPT !.data_folder = PathJoin(cfg.data_folder, "development")],
     test |-> [cfg EXCEPT !.data_folder = PathJoin(cfg.data_folder, "validation")]]

\* a dispatch in which an unknown identifier falls back to the training set
DcaseSplitCallsWithDefault(cfg, which) ==
    LET c == DcaseSplitConfigs(cfg)
    IN IF which = "all" THEN <<c.tr, c.dev, c.test>>
       ELSE IF which = "dev" THEN <<c.dev>>
       ELSE IF which = "test" THEN <<c.test>>
       ELSE <<c.tr>>
\* lines 193-201: the constructor calls the remixed builder's split makes, in order
DcaseSplitCalls(cfg, which) ==
    LET c == DcaseSplitConfigs(cfg)
    IN IF which = "all" THEN <<c.tr, c.dev, c.test>>
       ELSE IF which = "train" THEN <<c.tr>>
       ELSE IF which = "dev" THEN <<c.dev>>
       ELSE IF which = "test" THEN <<c.test>>
       ELSE <<>>

\* lines 370-374: the two configurations of the pre-packed builder
IcasspSplitConfigs(cfg) ==
    [tr |-> [data_folder |-> cfg.data_folder,
             data_file |-> PathJoin(cfg.data_folder, "training.h5"),
             audio_folder |-> PathJoin(cfg.audio_folder, "training")],
     test |-> [data_folder |-> cfg.data_folder,
               data_file |-> PathJoin(cfg.data_folder, "testing.h5"),
               audio_folder |-> PathJoin(cfg.audio_folder, "testing")]]

\* lines 376-384: the constructor calls the pre-packed builder's split makes, in order
IcasspSplitCalls(cfg, which) ==
    LET c == IcasspSplitConfigs(cfg)
    IN IF which = "all" THEN <<c.tr, c.test, c.test>>
       ELSE IF which = "train" THEN <<c.tr>>
       ELSE IF which = "dev" \/ which = "test" THEN <<c.test>>
       ELSE <<>>

\* the calls cls(...) made one after the other until one raises; ok[i] tells whether
\* the i-th constructor call completes
CallsMade(calls, ok) ==
    IF \E i \in 1..Len(calls) : ~ok[i]
    THEN SubSeq(calls, 1, CHOOSE i \in 1..Len(calls) :
                             ~ok[i] /\ \A j \in 1..(i - 1) : ok[j])
    ELSE calls

SplitResult(cls, cfg, which, calls, ok, message) ==
    LET made == CallsMade(calls, ok)
        failed == \E i \in 1..Len(calls) : ~ok[i]
    IN [cls |-> cls, which |-> which, config |-> cfg,
        constructed |-> made,
        exc |-> IF which \notin ValidIds THEN "ValueError"
                ELSE IF failed THEN "ConstructorError" ELSE "none",
        message |-> IF which \notin ValidIds THEN message ELSE <<>>,
        returned |-> IF which \in ValidIds /\ ~failed THEN calls ELSE <<>>]

\* DCASE2013RemixedDataSet.split(config, which)
DcaseSplit ==
    /\ \E cfg \in SplitConfigs, which \in SplitIds, ok \in [1..3 -> BOOLEAN] :
         splitState' = SplitResult("DCASE2013RemixedDataSet", cfg, which,
                                   DcaseSplitCalls(cfg, which), ok,
                                   <<"ID ", which, " is not valid.">>)
    /\ UNCHANGED <<consVars, opsVars, stftVars>>

\* ICASSP2018JointSeparationClassificationDataSet.split(config, which)
IcasspSplit ==
    /\ \E cfg \in SplitConfigs, which \in SplitIds, ok \in [1..3 -> BOOLEAN] :
         splitState' = SplitResult("ICASSP2018JointSeparationClassificationDataSet", cfg,
                                   which, IcasspSplitCalls(cfg, which), ok,
                                   <<"Set identifier ", which, " is not available.">>)
    /\ UNCHANGED <<consVars, opsVars, stftVars>>

InitSplit ==
    /\ config = [cls |-> "none"]
    /\ archive = [f \in Folders |-> AbsentFile]
    /\ pc = "idle"
    /\ InitCommon
    /\ InitIdleSplit /\ InitIdleOps /\ InitIdleStft

NextSplit == DcaseSplit \/ IcasspSplit

SpecSplit == InitSplit /\ [][NextSplit]_vars

\* the names of a path, without the separators
Components(path) == SelectSeq(path, LAMBDA t : t # "/")
IsAbsolute(path) == path # <<>> /\ path[1] = "/"
\* path is the entry `name` of the folder `base`
IsEntryOf(path, base, name) ==
    /\ Components(path) = Append(Components(base), name)
    /\ IsAbsolute(path) = IsAbsolute(base)

DcaseBuiltFrom(c, sub) ==
    /\ IsEntryOf(c.data_folder, splitState.config.data_folder, sub)
    /\ c.audio_folder = splitState.config.audio_folder
IcasspBuiltFrom(c, sub) ==
    /\ IsEntryOf(c.data_file, splitState.config.data_folder, sub \o ".h5")
    /\ IsEntryOf(c.audio_folder, splitState.config.audio_folder, sub)

C6_InvalidIdRejected ==
    (splitState.cls # "none" /\ splitState.which \notin ValidIds) =>
        /\ splitState.exc = "ValueError"
        /\ \E i \in 1..Len(splitState.message) : splitState.message[i] = splitState.which
        /\ splitState.constructed = <<>>
        /\ splitState.returned = <<>>

\* split(config, "val") of the remixed builder has raised
C6_Witness ==
    /\ splitState.cls = "DCASE2013RemixedDataSet"
    /\ splitState.which = "val"
    /\ splitState.exc = "ValueError"

(***************************************************************************)
(* Methods of a built data set.  Feature values are exact rationals        *)
(* [n, d] with d > 0 in lowest terms; a statistic carries its kind:        *)
(* "num" (the number n/d), "sqrt" (the square root of n/d) or "nan".       *)
(***************************************************************************)
MaxExamples == 2    \* examples of a built data set
MaxCalls == 1       \* shift_and_scale calls

RECURSIVE Gcd(_, _)
Gcd(a, b) == IF b = 0 THEN a ELSE Gcd(b, a % b)

Rat(n, d) ==
    LET sn == IF d < 0 THEN -n ELSE n
        sd == Abs(d)
        g == Gcd(Abs(sn), sd)
    IN [n |-> sn \div g, d |-> sd \div g]
RInt(k) == [n |-> k, d |-> 1]
RAdd(a, b) == Rat(a.n * b.d + b.n * a.d, a.d * b.d)
RSub(a, b) == Rat(a.n * b.d - b.n * a.d, a.d * b.d)
RMul(a, b) == Rat(a.n * b.n, a.d * b.d)
RDiv(a, b) == Rat(a.n * b.d, a.d * b.n)
RLeq(a, b) == a.n * b.d <= b.n * a.d

RECURSIVE RSum(_)
RSum(seq) == IF seq = <<>> THEN RInt(0) ELSE RAdd(seq[1], RSum(Tail(seq)))

RECURSIVE Flatten(_)
Flatten(seqs) == IF seqs = <<>> THEN <<>> ELSE seqs[1] \o Flatten(Tail(seqs))

Num(r) == [kind |-> "num", n |-> r.n, d |-> r.d]
Sqrt(r) == [kind |-> "sqrt", n |-> r.n, d |-> r.d]
NaN == [kind |-> "nan", n |-> 0, d |-> 1]

\* self.features[:, i, :, :] as one sequence of values
ChannelValues(features, i) == Flatten([e \in 1..Len(features) |-> features[e][i]])
NChannels(features) == Len(features[1])

\* torch.Tensor.mean
Mean(values) == RDiv(RSum(values), RInt(Len(values)))
\* torch.Tensor.std (unbiased); NaN for a single value
Std(values) ==
    LET n == Len(values)
        sumSq == RSum([k \in 1..n |-> RMul(values[k], values[k])])
        sum == RSum(values)
    IN IF n < 2 THEN NaN
       ELSE Sqrt(RDiv(RSub(sumSq, RDiv(RMul(sum, sum), RInt(n))), RInt(n - 1)))
\* torch.Tensor.min and max
RMin(values) ==
    values[CHOOSE k \in 1..Len(values) : \A j \in 1..Len(values) : RLeq(values[k], values[j])]
RMax(values) ==
    values[CHOOSE k \in 1..Len(values) : \A j \in 1..Len(values) : RLeq(values[j], values[k])]

ScalingTypes == {"standardization", "min-max", "", "min-max scaling"}

\* a scaling that is the maximum alone, the minimum not subtracted
MinMaxScalingNoSubtract(values) == Num(RMax(values))
\* lines 297-299: channel_scaling[i] = max - channel_shift[i]
MinMaxScaling(values) == Num(RSub(RMax(values), RMin(values)))

\* compute_shift_and_scaling: the two lists, one entry per channel
compute_shift_and_scaling(features, scaling_type) ==
    LET stat(i) ==
            LET values == ChannelValues(features, i)
            IN IF scaling_type = "standardization"
               THEN [shift |-> Num(Mean(values)), scaling |-> Std(values)]
               ELSE IF scaling_type = "min-max"
               THEN [shift |-> Num(RMin(values)), scaling |-> MinMaxScaling(values)]
               ELSE IF scaling_type = ""
               THEN [shift |-> Num(RInt(0)), scaling |-> Num(RInt(1))]
               ELSE [shift |-> NaN, scaling |-> NaN]
    IN [channel_shift |-> [i \in 1..NChannels(features) |-> stat(i).shift],
        channel_scaling |-> [i \in 1..NChannels(features) |-> stat(i).scaling]]

ScaledFeatures(features, shift, scaling) ==
    [e \in 1..Len(features) |->
        [i \in 1..Len(features[e]) |->
            [k \in 1..Len(features[e][i]) |->
                RDiv(RSub(features[e][i][k], shift[i]), scaling[i])]]]

\* shift_and_scale that also rescales the labels
shift_and_scale_with_labels(d, shift, scaling) ==
    [d EXCEPT !.features = ScaledFeatures(d.features, shift, scaling),
              !.labels = [e \in 1..Len(d.labels) |->
                             [k \in 1..Len(d.labels[e]) |-> d.labels[e][k] + 1]]]
\* shift_and_scale: features[:, i] = (features[:, i] - shift[i]) / scaling[i], in place
shift_and_scale(d, shift, scaling) ==
    [d EXCEPT !.features = ScaledFeatures(d.features, shift, scaling)]

\* a built data set of nEx examples, nCh channels and nCell cells per channel,
\* example e holding the values seeds[e] + channel * cell - 1
BuiltDataSet(seeds, nCh, nCell) ==
    [magnitudes |-> Arr([e \in 1..Len(seeds) |-> seeds[e] + 2]),
     phases |-> Arr([e \in 1..Len(seeds) |-> 1]),
     features |-> [e \in 1..Len(seeds) |->
                      [i \in 1..nCh |-> [k \in 1..nCell |-> RInt(seeds[e] + i * k - 1)]]],
     labels |-> [e \in 1..Len(seeds) |-> <<seeds[e] % 2>>],
     classes |-> <<ClassAscii>>,
     filenames |-> [e \in 1..Len(seeds) |-> IF seeds[e] = 0 THEN FileA ELSE FileB]]

NoRet == [op |-> "none", shift |-> <<>>, scaling |-> <<>>, value |-> <<>>, before |-> <<>>]

InitOps ==
    /\ config \in [cls : {"DCASE2013RemixedDataSet",
                          "ICASSP2018JointSeparationClassificationDataSet"},
                   scaling_type : ScalingTypes]
    /\ \E seeds \in SeqsUpTo({0, 1, 4}, MaxExamples) \ {<<>>}, nCh \in 1..2, nCell \in 1..2 :
          self = BuiltDataSet(seeds, nCh, nCell)
    /\ archive = [f \in Folders |-> AbsentFile]
    /\ pc = "built"
    /\ files_df = EmptyDf
    /\ futures = <<>>
    /\ completed = <<>>
    /\ builtFrom = "file"
    /\ outcome = "returned"
    /\ saveReached = FALSE
    /\ failureSeen = FALSE
    /\ reloaded = NoReload
    /\ device = [features |-> "cpu", labels |-> "cpu"]
    /\ ret = NoRet
    /\ nCalls = 0
    /\ InitIdleSplit /\ InitIdleStft

opsFrame == <<config, archive, files_df, futures, completed, pc, builtFrom, outcome,
              saveReached, failureSeen, reloaded, splitVars, stftVars>>

\* to(device)
To ==
    /\ \E dev \in {"cpu", "cuda"} : device' = [features |-> dev, labels |-> dev]
    /\ ret' = [NoRet EXCEPT !.op = "to"]
    /\ UNCHANGED <<self, nCalls, opsFrame>>

\* compute_shift_and_scaling()
ComputeShiftAndScaling ==
    /\ LET r == compute_shift_and_scaling(self.features, config.scaling_type)
       IN ret' = [NoRet EXCEPT !.op = "compute_shift_and_scaling",
                               !.shift = r.channel_shift,
                               !.scaling = r.channel_scaling,
                               !.before = self.features]
    /\ UNCHANGED <<self, device, nCalls, opsFrame>>

\* shift_and_scale(shift, scaling), the same statistics for every channel
ShiftAndScale ==
    /\ nCalls < MaxCalls
    /\ \E shift \in {0, 1}, scaling \in {1, 2} :
          self' = shift_and_scale(self,
                                  [i \in 1..NChannels(self.features) |-> RInt(shift)],
                                  [i \in 1..NChannels(self.features) |-> RInt(scaling)])
    /\ nCalls' = nCalls + 1
    /\ ret' = [NoRet EXCEPT !.op = "shift_and_scale"]
    /\ UNCHANGED <<device, opsFrame>>

\* __getitem__(index)
GetItem ==
    /\ \E index \in 1..Len(self.features) :
          ret' = [NoRet EXCEPT !.op = "getitem",
                               !.value = <<self.features[index], self.labels[index]>>]
    /\ UNCHANGED <<self, device, nCalls, opsFrame>>

\* __len__()
LenCall ==
    /\ ret' = [NoRet EXCEPT !.op = "len", !.value = <<Len(self.features)>>]
    /\ UNCHANGED <<self, device, nCalls, opsFrame>>

NextOps == To \/ ComputeShiftAndScaling \/ ShiftAndScale \/ GetItem \/ LenCall

SpecOps == InitOps /\ [][NextOps]_vars

Val(stat) == [n |-> stat.n, d |-> stat.d]
Deviations(values, m) == [k \in 1..Len(values) |-> RSub(values[k], m)]
Squares(values) == [k \in 1..Len(values) |-> RMul(values[k], values[k])]

IsMeanOf(stat, values) ==
    /\ stat.kind = "num"
    /\ RSum(Deviations(values, Val(stat))) = RInt(0)
IsStdOf(stat, values, mean) ==
    IF Len(values) = 1 THEN stat = NaN
    ELSE /\ stat.kind = "sqrt"
         /\ RMul(Val(stat), RInt(Len(values) - 1)) = RSum(Squares(Deviations(values, mean)))
IsLeast(v, values) ==
    /\ \E k \in 1..Len(values) : values[k] = v
    /\ \A k \in 1..Len(values) : RLeq(v, values[k])
IsGreatest(v, values) ==
    /\ \E k \in 1..Len(values) : values[k] = v
    /\ \A k \in 1..Len(values) : RLeq(values[k], v)

C10_Frame ==
    [][/\ self'.magnitudes = self.magnitudes
       /\ self'.phases = self.phases
       /\ self'.filenames = self.filenames
       /\ self'.classes = self.classes
       /\ self'.labels = self.labels
       /\ Len(self'.features) = Len(self.features)
       /\ (self'.features # self.features => ret'.op = "shift_and_scale")
       /\ (device' # device => ret'.op = "to")
       /\ (ret'.op = "to" => self' = self)]_vars

\* a data set moved to another device and rescaled, then indexed
C10_Witness ==
    /\ nCalls >= 1
    /\ device.features = "cuda"
    /\ ret.op = "getitem"
    /\ self.features # BuiltDataSet(<<0>>, 1, 1).features

(***************************************************************************)
(* STFT framing                                                            *)
(***************************************************************************)
MaxWidthMs == 4     \* largest STFT_frame_width_ms / STFT_frame_shift_ms tried
MaxSamples == 10    \* longest signal, in samples
MaxFrames == 3      \* most frames handed to istft
SamplingRates == {500, 1000, 2000}

\* lines 111-112: nperseg
Nperseg(sampling_rate, width_ms) == (width_ms * sampling_rate) \div 1000
\* lines 113-114: noverlap
Noverlap(sampling_rate, shift_ms) == (shift_ms * sampling_rate) \div 1000

\* scipy.signal.stft(boundary=None, padded=False) with these arguments: the first sample
\* of every segment; segments lie nperseg - noverlap samples apart
separated_stft_frames(sampling_rate, width_ms, shift_ms, n) ==
    LET nperseg == IF Nperseg(sampling_rate, width_ms) > n THEN n
                   ELSE Nperseg(sampling_rate, width_ms)
        noverlap == Noverlap(sampling_rate, shift_ms)
        nstep == nperseg - noverlap
    IN IF nperseg < 1 \/ noverlap >= nperseg
       THEN [exc |-> "ValueError", starts |-> <<>>, length |-> 0]
       ELSE [exc |-> "none",
             starts |-> [k \in 1..((n - noverlap) \div nstep) |-> (k - 1) * nstep],
             length |-> n]

\* scipy.signal.istft(boundary=None) with these arguments on nseg frames: where each
\* frame is overlap-added, and the length of the output
istft_frames(sampling_rate, width_ms, shift_ms, nseg) ==
    LET nperseg == Nperseg(sampling_rate, width_ms)
        noverlap == Noverlap(sampling_rate, shift_ms)
        nstep == nperseg - noverlap
    IN IF nperseg < 1 \/ noverlap >= nperseg
       THEN [exc |-> "ValueError", starts |-> <<>>, length |-> 0]
       ELSE [exc |-> "none",
             starts |-> [k \in 1..nseg |-> (k - 1) * nstep],
             length |-> nperseg + (nseg - 1) * nstep]

StftCall(op, sampling_rate, width_ms, shift_ms, n, r) ==
    [op |-> op, sampling_rate |-> sampling_rate, width_ms |-> width_ms,
     shift_ms |-> shift_ms, n |-> n, exc |-> r.exc, starts |-> r.starts, length |-> r.length]

\* separated_stft(audio) on a signal of n samples
SeparatedStft ==
    /\ \E sr \in SamplingRates, width \in 1..MaxWidthMs, shift \in 0..MaxWidthMs,
          n \in 1..MaxSamples :
          stft' = StftCall("separated_stft", sr, width, shift, n,
                           separated_stft_frames(sr, width, shift, n))
    /\ UNCHANGED <<consVars, splitVars, opsVars>>

\* istft(ftst) on a spectrum of nseg frames
Istft ==
    /\ \E sr \in SamplingRates, width \in 1..MaxWidthMs, shift \in 0..MaxWidthMs,
          nseg \in 1..MaxFrames :
          stft' = StftCall("istft", sr, width, shift, nseg,
                           istft_frames(sr, width, shift, nseg))
    /\ UNCHANGED <<consVars, splitVars, opsVars>>

InitStft ==
    /\ config = [cls |-> "none"]
    /\ archive = [f \in Folders |-> AbsentFile]
    /\ pc = "idle"
    /\ InitCommon
    /\ InitIdleSplit /\ InitIdleOps /\ InitIdleStft

NextStft == SeparatedStft \/ Istft

SpecStft == InitStft /\ [][NextStft]_vars

FrameLength == (stft.width_ms * stft.sampling_rate) \div 1000
HopLength == (stft.shift_ms * stft.sampling_rate) \div 1000

\* C8 as stated: with width * rate and shift * rate multiples of 1000 and
\* 0 < shift <= width, the frames of separated_stft and istft start H samples apart, and
\* a signal of N >= W samples gives floor((N - W) / H) + 1 frames.
C8_FramesOneHopApart ==
    (/\ stft.op \in {"separated_stft", "istft"}
     /\ (stft.width_ms * stft.sampling_rate) % 1000 = 0
     /\ (stft.shift_ms * stft.sampling_rate) % 1000 = 0
     /\ 0 < stft.shift_ms /\ stft.shift_ms <= stft.width_ms
     /\ (stft.op = "separated_stft" => stft.n >= FrameLength))
        => /\ stft.exc = "none"
           /\ \A k \in 1..(Len(stft.starts) - 1) :
                 stft.starts[k + 1] - stft.starts[k] = HopLength
           /\ stft.op = "separated_stft" =>
                 Len(stft.starts) = (stft.n - FrameLength) \div HopLength + 1

====
